---- MODULE Spec2Model ----
(***************************************************************************)
(* A model of ollama-lan (src/ollama-lan.py): the generator stream_chat,  *)
(* the helpers it calls, and the Gradio session that drives it.            *)
(*                                                                         *)
(* Text is a sequence of one-character strings.  A Python dict is a        *)
(* function whose DOMAIN is the set of keys present.  Numbers that the     *)
(* code only tests for truthiness are 0 when the key is absent or None.    *)
(* Time is in milliseconds of time.monotonic().                            *)
(*                                                                         *)
(* Spec is a session of submissions; ClearSpec adds the clear button of    *)
(* the chat.  RenderSpec, SpeedSpec and ChooseSpec apply one helper on its *)
(* own to arguments drawn from bounded sets.                               *)
(***************************************************************************)
EXTENDS Integers, Sequences, FiniteSets, TLC

\* ------------------------------------------------------------- bounds
\* Inputs from outside over the whole session: submissions of the prompt,
\* lines of the chat stream, ticks of the clock and clicks on clear.
MaxInputs == 5

\* ---------------------------------------------------------- constants
STREAM_UI_UPDATE_INTERVAL_MS == 120
STREAM_UI_UPDATE_MIN_CHARS == 24
\* Granularity of the modelled clock (half the emission interval).
TickMs == 60

STATUS_READY == "ready"
STATUS_GENERATING == "gen"
STATUS_THINKING == "think"
STATUS_ERROR == "err"

status_text(status) ==
    CASE status = STATUS_READY -> "Ready"
      [] status = STATUS_GENERATING -> "Generating"
      [] status = STATUS_THINKING -> "Thinking"
      [] status = STATUS_ERROR -> "Ollama unreachable"
      [] OTHER -> "Ready"

header_text(status) == <<"## ollama-lan", status_text(status)>>

NoMetricsYet == [text |-> "No metrics yet."]
NoMetricsReturned == [text |-> "No metrics returned by Ollama."]

\* ------------------------------------------------------ text helpers
IsSpace(c) == c \in {" ", "\n", "\t", "\r"}

RECURSIVE LStrip(_)
LStrip(s) == IF s # <<>> /\ IsSpace(Head(s)) THEN LStrip(Tail(s)) ELSE s

RECURSIVE RStrip(_)
RStrip(s) ==
    IF s # <<>> /\ IsSpace(s[Len(s)]) THEN RStrip(SubSeq(s, 1, Len(s) - 1)) ELSE s

\* str.strip()
Strip(s) == RStrip(LStrip(s))

RECURSIVE Concat(_)
Concat(ss) == IF ss = <<>> THEN <<>> ELSE Head(ss) \o Concat(Tail(ss))

\* dict.get(key) of a number, read only for its truthiness or its value
NumGet(d, k) == IF k \in DOMAIN d THEN d[k] ELSE 0

\* ------------------------------------------------------------ metrics
\* A float is held as the exact fraction num/den in lowest terms, den > 0.
Abs(n) == IF n < 0 THEN 0 - n ELSE n

RECURSIVE Gcd(_, _)
Gcd(a, b) == IF b = 0 THEN a ELSE Gcd(b, a % b)

\* n / d for d > 0
Rat(n, d) ==
    LET g == Gcd(Abs(n), d)
    IN  [num |-> n \div g, den |-> d \div g]

\* 0.0
Zero == [num |-> 0, den |-> 1]

NS_PER_S == 1000000000

ns_to_s(value) == IF value = 0 THEN Zero ELSE Rat(value, NS_PER_S)

\* A bug that divides by the duration in nanoseconds.
ComputeSpeedPerNanosecond(count, duration_ns) ==
    IF count = 0 \/ duration_ns <= 0 THEN Zero ELSE Rat(count, duration_ns)

compute_speed(count, duration_ns) ==
    LET duration_s == ns_to_s(duration_ns)
    IN  IF count = 0 \/ duration_s.num <= 0 THEN Zero
        ELSE Rat(count * duration_s.den, duration_s.num)

\* f"{x:.2f}" of x >= 0: the nearest number of hundredths
Fixed2(x) == (2 * 100 * x.num + x.den) \div (2 * x.den)

format_metrics(meta) ==
    [text |-> "### Response Metrics",
     prompt_tps |-> Fixed2(compute_speed(NumGet(meta, "prompt_eval_count"),
                                         NumGet(meta, "prompt_eval_duration"))),
     gen_tps |-> Fixed2(compute_speed(NumGet(meta, "eval_count"),
                                      NumGet(meta, "eval_duration"))),
     total_s |-> Fixed2(ns_to_s(NumGet(meta, "total_duration"))),
     load_s |-> Fixed2(ns_to_s(NumGet(meta, "load_duration")))]

\* ------------------------------------------- render_assistant_text
\* The character at 1-based position i, "" past either end.
At(s, i) == IF i \in 1..Len(s) THEN s[i] ELSE ""

\* Length of the run of \s characters that starts at position i.
RECURSIVE WsRun(_, _)
WsRun(s, i) == IF IsSpace(At(s, i)) THEN 1 + WsRun(s, i + 1) ELSE 0

SetMax(S) == CHOOSE x \in S : \A y \in S : y <= x
SetMin(S) == CHOOSE x \in S : \A y \in S : x <= y

\* text.replace("\r\n", "\n").replace("\r", "\n")
RECURSIVE NormalizeNewlines(_)
NormalizeNewlines(s) ==
    IF s = <<>> THEN <<>>
    ELSE IF Head(s) = "\r"
         THEN IF At(s, 2) = "\n"
              THEN <<"\n">> \o NormalizeNewlines(SubSeq(s, 3, Len(s)))
              ELSE <<"\n">> \o NormalizeNewlines(Tail(s))
         ELSE <<Head(s)>> \o NormalizeNewlines(Tail(s))

\* block_pattern, from the "\n" that ends group 2 at position e:
\*   \n \s* \\? \] \s* (?=\n|$)      (MULTILINE)
\* The position after the match, 0 when there is none.  A greedy \s* that
\* is followed by a non-space literal can only keep its whole run; the last
\* \s* backtracks to the last "\n" of its run, or keeps the run at the end
\* of the text.
BlockTail(s, e) ==
    IF At(s, e) # "\n" THEN 0
    ELSE LET t == e + 1 + WsRun(s, e + 1)
             t2 == IF At(s, t) = "\\" THEN t + 1 ELSE t
             u == t2 + 1
             w == WsRun(s, u)
             ks == {k \in 0..(w - 1) : At(s, u + k) = "\n"}
         IN  IF At(s, t2) # "]" THEN 0
             ELSE IF u + w = Len(s) + 1 THEN u + w
             ELSE IF ks = {} THEN 0
             ELSE u + SetMax(ks)

\* block_pattern after group 1, from position q:
\*   \s* \\? \[ \s* \n (.*?) <BlockTail>      (DOTALL)
\* The \s* before "\n" is greedy: the last "\n" of the run that lets the
\* rest match; (.*?) is lazy: the first end that lets the rest match.
BlockRest(s, q) ==
    LET r == q + WsRun(s, q)
        r2 == IF At(s, r) = "\\" THEN r + 1 ELSE r
        o == r2 + 1
        w == WsRun(s, o)
        Ends(c) == {e \in c..Len(s) : BlockTail(s, e) # 0}
        js == {j \in 0..(w - 1) : At(s, o + j) = "\n" /\ Ends(o + j + 1) # {}}
    IN  IF At(s, r2) # "[" \/ js = {} THEN [ok |-> FALSE]
        ELSE LET c == o + SetMax(js) + 1
                 e == SetMin(Ends(c))
             IN  [ok |-> TRUE, stop |-> BlockTail(s, e),
                  g2 |-> SubSeq(s, c, e - 1)]

\* block_pattern at position p: group 1 is (^|\n), "^" tried first.
BlockMatch(s, p) ==
    LET viaStart == IF p = 1 \/ At(s, p - 1) = "\n"
                    THEN BlockRest(s, p) ELSE [ok |-> FALSE]
        viaNl == IF At(s, p) = "\n" THEN BlockRest(s, p + 1) ELSE [ok |-> FALSE]
    IN  IF viaStart.ok THEN viaStart @@ [g1 |-> <<>>]
        ELSE IF viaNl.ok THEN viaNl @@ [g1 |-> <<"\n">>]
        ELSE [ok |-> FALSE]

\* block_pattern.subn(lambda m: f"{m.group(1)}$$\n{m.group(2).strip()}\n$$", ...)
RECURSIVE BlockSub(_, _)
BlockSub(s, p) ==
    IF p > Len(s) THEN <<>>
    ELSE LET m == BlockMatch(s, p)
         IN  IF m.ok
             THEN m.g1 \o <<"$", "$", "\n">> \o Strip(m.g2) \o <<"\n", "$", "$">>
                  \o BlockSub(s, m.stop)
             ELSE <<s[p]>> \o BlockSub(s, p + 1)

\* [^\[\]\n]
InlineChar(c) == c # "" /\ c \notin {"[", "]", "\n"}
\* [=\\^_]
OperatorChar(c) == c \in {"=", "\\", "^", "_"}

RECURSIVE InlineRun(_, _)
InlineRun(s, i) == IF InlineChar(At(s, i)) THEN 1 + InlineRun(s, i + 1) ELSE 0

\* inline_pattern at position p:
\*   \[ \s* ([^\[\]\n]*[=\\^_][^\[\]\n]*) \s* \]
\* Both \s* are followed by something that is no space, or by characters
\* the group takes anyway, so the group is the whole run of InlineChar
\* after the leading spaces.
InlineMatch(s, p) ==
    LET g == p + 1 + WsRun(s, p + 1)
        m == g + InlineRun(s, g)
        t == m + WsRun(s, m)
    IN  IF /\ At(s, p) = "["
           /\ \E i \in g..(m - 1) : OperatorChar(s[i])
           /\ At(s, t) = "]"
        THEN [ok |-> TRUE, stop |-> t + 1, g1 |-> SubSeq(s, g, m - 1)]
        ELSE [ok |-> FALSE]

\* inline_pattern.subn(lambda m: f"$${m.group(1).strip()}$$", ...)
RECURSIVE InlineSub(_, _)
InlineSub(s, p) ==
    IF p > Len(s) THEN <<>>
    ELSE LET m == InlineMatch(s, p)
         IN  IF m.ok
             THEN <<"$", "$">> \o Strip(m.g1) \o <<"$", "$">> \o InlineSub(s, m.stop)
             ELSE <<s[p]>> \o InlineSub(s, p + 1)

render_assistant_text(text) ==
    LET rendered == NormalizeNewlines(text)
        blocks == BlockSub(rendered, 1)
    IN  InlineSub(blocks, 1)

\* ------------------------------------------------------- input sets
\* What the user may type into the prompt box.
Messages == {<<>>, <<" ">>, <<"h", "i">>}

\* A content delta as long as the character threshold of the throttle.
LongDelta == [i \in 1..STREAM_UI_UPDATE_MIN_CHARS |-> "b"]

\* message.content of a stream event; <<>> is an absent or empty content.
ContentDeltas == {<<>>, <<"[", "x", "=", "1", "]">>, LongDelta}

\* message.thinking of a stream event; <<>> is an absent or empty thinking.
ThinkingDeltas == {<<>>, <<"h", "m">>}

\* Telemetry of a done event: none, or the counters Ollama reports.
Telemetry ==
    [prompt_eval_count |-> 5, prompt_eval_duration |-> 500000000,
     eval_count |-> 10, eval_duration |-> 1000000000,
     total_duration |-> 2000000000, load_duration |-> 0]

EmptyDict == [k \in {} |-> 0]

\* The decoded events the service may send: an event that is not the last
\* carries a thinking delta, a content delta or both; the done event carries
\* no delta or a last short content delta, with or without telemetry.
Events ==
    LET msgs == [thinking : ThinkingDeltas, content : ContentDeltas]
        last == [thinking : {<<>>}, content : ContentDeltas \ {LongDelta}]
    IN  {[message |-> m, done |-> FALSE] :
            m \in {x \in msgs : x.thinking # <<>> \/ x.content # <<>>}}
        \cup {[message |-> m, done |-> TRUE] : m \in last}
        \cup {[message |-> m, done |-> TRUE] @@ Telemetry : m \in last}

\* One line of response.iter_lines(): an empty keep-alive line, a line that
\* is no JSON, a line that is JSON but no object (such as []), or an event.
Lines ==
    {[kind |-> "blank"], [kind |-> "garbage"], [kind |-> "nonobject"]}
    \cup {[kind |-> "event", event |-> e] : e \in Events}

\* requests.post(...) and raise_for_status(): how the call may end.
PostOutcomes == {"ok", "ConnectionError", "HTTPError"}

\* GET /api/tags: a failure, or the payload's "models" list.
TagsResponses ==
    {[ok |-> FALSE]}
    \cup {[ok |-> TRUE, models |-> ms] :
            ms \in {<<>>, <<[name |-> "m2"], [name |-> ""], [name |-> "m1"]>>}}

\* GET /api/ps: a failure of the request, a body that is JSON but no object
\* (such as []), or the "models" list of the payload.
PsResponses ==
    {[ok |-> FALSE], [ok |-> TRUE, object |-> FALSE]}
    \cup {[ok |-> TRUE, object |-> TRUE, models |-> ms] :
            ms \in {<<[name |-> "m2", context_length |-> 2048, size_vram |-> 512]>>,
                    <<[name |-> "m1"]>>,
                    <<[model |-> "m1", context_length |-> 8192,
                       size_vram |-> 1024]>>}}

\* --initial-model of the command line ("" when not given).
StartupModels == {""}

\* ------------------------------------------------------ dict helpers
StrGet(d, k) == IF k \in DOMAIN d THEN d[k] ELSE ""

\* d[k] = v
Put(d, k, v) == [x \in (DOMAIN d) \cup {k} |-> IF x = k THEN v ELSE d[x]]

Range(f) == {f[x] : x \in DOMAIN f}

UserMessage(content) == [role |-> "user", content |-> content]
AssistantMessage(content) == [role |-> "assistant", content |-> content]

\* history[-1] = m
ReplaceLast(history, m) == [history EXCEPT ![Len(history)] = m]

\* ------------------------------------------------------ model registry
\* The order of the model names under Python's string comparison.
NameRank(n) == CASE n = "" -> 0 [] n = "m1" -> 1 [] n = "m2" -> 2 [] n = "m3" -> 3

RECURSIVE InsertByName(_, _)
InsertByName(sorted, m) ==
    IF sorted = <<>> THEN <<m>>
    ELSE IF NameRank(m.name) < NameRank(Head(sorted).name)
         THEN <<m>> \o sorted
         ELSE <<Head(sorted)>> \o InsertByName(Tail(sorted), m)

RECURSIVE SortByName(_)
SortByName(ms) ==
    IF ms = <<>> THEN <<>>
    ELSE InsertByName(SortByName(SubSeq(ms, 1, Len(ms) - 1)), ms[Len(ms)])

\* fetch_models after the request succeeded: drop the nameless, sort by name
fetch_models(payload) ==
    SortByName(SelectSeq(payload, LAMBDA m : StrGet(m, "name") # ""))

\* A bug that trusts the preferred name without looking it up.
ChoosePreferredUnchecked(model_names, preferred_model) ==
    IF preferred_model # "" THEN preferred_model ELSE model_names[1]

\* preferred_model is "" when it is None or empty
choose_model(model_names, preferred_model) ==
    IF preferred_model # "" /\ preferred_model \in Range(model_names)
    THEN preferred_model
    ELSE model_names[1]

\* entry.get("name") or entry.get("model") or ""
EntryName(entry) ==
    IF StrGet(entry, "name") # "" THEN entry.name ELSE StrGet(entry, "model")

\* fetch_ps_entry: the first entry named like the model; None (here the
\* empty dict, as falsy as None) on failure or when there is none.
RECURSIVE FirstNamed(_, _)
FirstNamed(models, model) ==
    IF models = <<>> THEN EmptyDict
    ELSE IF EntryName(Head(models)) = model THEN Head(models)
    ELSE FirstNamed(Tail(models), model)

fetch_ps_entry(response, model) ==
    IF ~response.ok THEN EmptyDict ELSE FirstNamed(response.models, model)

\* stream_chat, lines 293-300: the model map after the probe
RefreshedModelMap(model_map, model, ps_entry) ==
    IF DOMAIN ps_entry = {} THEN model_map
    ELSE LET old == IF model \in DOMAIN model_map THEN model_map[model]
                    ELSE EmptyDict
             e1 == IF NumGet(ps_entry, "context_length") # 0
                   THEN Put(old, "context_length", ps_entry.context_length)
                   ELSE old
             e2 == IF NumGet(ps_entry, "size_vram") # 0
                   THEN Put(e1, "size_vram", ps_entry.size_vram)
                   ELSE e1
         IN  IF DOMAIN e2 # {} THEN Put(model_map, model, e2) ELSE model_map

\* ------------------------------------------------- stream_chat pieces
\* A bug that never reports the Thinking status.
StatusKeyAlwaysGenerating(message_event) == STATUS_GENERATING

\* line 264
StatusKey(message_event) ==
    IF message_event.thinking # <<>> THEN STATUS_THINKING ELSE STATUS_GENERATING

\* A bug that keeps only the newest delta.
AccumulateNewestOnly(text, message_event) ==
    IF message_event.content # <<>> THEN message_event.content ELSE text

\* A bug that takes the thinking delta into the text as well.
AccumulateWithThinking(text, message_event) ==
    text \o message_event.thinking \o message_event.content

\* lines 266-267
Accumulate(text, message_event) ==
    IF message_event.content # <<>> THEN text \o message_event.content ELSE text

\* line 269
HasDelta(message_event) ==
    message_event.thinking # <<>> \/ message_event.content # <<>>

\* A bug that emits only when the text grew by more than the threshold.
ShouldEmitAboveThreshold(chars_delta, elapsed, message_event) ==
    \/ chars_delta > STREAM_UI_UPDATE_MIN_CHARS
    \/ elapsed >= STREAM_UI_UPDATE_INTERVAL_MS
    \/ (message_event.thinking # <<>> /\ message_event.content = <<>>)

\* lines 272-276
ShouldEmit(chars_delta, elapsed, message_event) ==
    \/ chars_delta >= STREAM_UI_UPDATE_MIN_CHARS
    \/ elapsed >= STREAM_UI_UPDATE_INTERVAL_MS
    \/ (message_event.thinking # <<>> /\ message_event.content = <<>>)

\* A bug that drops the failure detail.
ErrorAnnotationWithoutDetail(exc) == <<"[Error] ">>

\* line 287
ErrorAnnotation(exc) == <<"[Error] ", exc>>

\* A bug that formats the metrics of a turn that captured no telemetry.
FinalMetricsAlwaysFormatted(final_meta) == format_metrics(final_meta)

\* line 291
FinalMetrics(final_meta) ==
    IF DOMAIN final_meta # {} THEN format_metrics(final_meta)
    ELSE NoMetricsReturned

\* A bug that builds the request from the replay history alone.
RequestMessagesWithoutUser(clean_api, message) == clean_api

\* lines 233-234
RequestMessages(clean_api, message) == Append(clean_api, UserMessage(message))

\* line 302
FinalDisplayMessage(text) == AssistantMessage(render_assistant_text(text))

\* A bug that feeds the normalized text back into the replay history.
UpdatedApiNormalized(request_messages, text) ==
    Append(request_messages, AssistantMessage(render_assistant_text(text)))

\* line 303
UpdatedApi(request_messages, text) ==
    Append(request_messages, AssistantMessage(text))

\* A bug that tests the message without stripping it.
IsNoOpUnstripped(message, model) == message = <<>> \/ model = ""

\* lines 224 and 228: the submission is a no-op
IsNoOp(message, model) == Strip(message) = <<>> \/ model = ""

\* -------------------------------------------------------------- state
VARIABLES
    \* the Gradio session (build_app)
    startup_model_state, \* gr.State(initial_model)
    loaded,              \* app.load has run refresh_models
    model_dropdown,      \* value of the model dropdown, "" when None
    model_map_state, ui_history_state, api_history_state,
    chat, headline, metrics,
    \* the frame of the running stream_chat generator
    pc, message, model, model_map, clean_ui, clean_api, request_messages,
    display_history, text, final_meta, last_ui_emit, last_ui_len, event,
    \* the environment
    now,                 \* time.monotonic(), in ms
    conn,                \* the chat response: "none", "open" or "closed"
    \* history of the current turn, for the properties
    snapshot,            \* the last tuple the generator yielded
    statuses,            \* the status of every snapshot of the turn
    emitted,             \* the number of snapshots yielded at line 281
    events,              \* the events received, in arrival order
    requests,            \* the "messages" of every chat request sent
    probes,              \* the number of /api/ps requests sent
    probed,              \* whether the turn's /api/ps request found the model
    cleared,             \* what chat.clear did, if it ran since the last submission
    failure,             \* the exception that ended the chat request, "" if none
    inputs,              \* what the session held when the turn started, and when
    outcome,             \* how the last turn ended
    good,                \* the user/assistant pairs of the turns that reached Ready
    turns, used,
    \* a helper applied on its own, outside a session
    args,                \* the arguments it is applied to
    out                  \* the results of the applications made so far

sessionVars ==
    <<startup_model_state, loaded, model_dropdown, model_map_state,
      ui_history_state, api_history_state, chat, headline, metrics>>
frameVars ==
    <<pc, message, model, model_map, clean_ui, clean_api, request_messages,
      display_history, text, final_meta, last_ui_emit, last_ui_len, event>>
historyVars ==
    <<snapshot, statuses, emitted, events, requests, probes, probed, cleared, failure,
      inputs, outcome, good, turns, used>>
appVars == <<sessionVars, frameVars, now, conn, historyVars>>
helperVars == <<args, out>>
vars == <<appVars, helperVars>>

NoEvent == [message |-> [thinking |-> <<>>, content |-> <<>>], done |-> FALSE]
NoProbe == [sent |-> FALSE]
NoClear == [on |-> FALSE]
NoSnapshot ==
    [ui |-> <<>>, api |-> <<>>, headline |-> <<>>, metrics |-> NoMetricsYet,
     model_map |-> EmptyDict]
NoInputs ==
    [message |-> <<>>, model |-> "", ui |-> <<>>, api |-> <<>>,
     model_map |-> EmptyDict, at |-> 0]

YieldPoints == {"yield_noop", "yield_start", "yield_emit", "yield_err", "yield_ready"}

\* The session after build_app, before app.load.
SessionInit ==
    /\ startup_model_state \in StartupModels
    /\ loaded = FALSE
    /\ model_dropdown = ""
    /\ model_map_state = EmptyDict
    /\ ui_history_state = <<>>
    /\ api_history_state = <<>>
    /\ chat = <<>>
    /\ headline = header_text(STATUS_READY)
    /\ metrics = NoMetricsYet
    /\ pc = "idle"
    /\ message = <<>>
    /\ model = ""
    /\ model_map = EmptyDict
    /\ clean_ui = <<>>
    /\ clean_api = <<>>
    /\ request_messages = <<>>
    /\ display_history = <<>>
    /\ text = <<>>
    /\ final_meta = EmptyDict
    /\ last_ui_emit = 0
    /\ last_ui_len = 0
    /\ event = NoEvent
    /\ now = 0
    /\ conn = "none"
    /\ snapshot = NoSnapshot
    /\ statuses = <<>>
    /\ emitted = 0
    /\ events = <<>>
    /\ requests = <<>>
    /\ probes = 0
    /\ probed = NoProbe
    /\ cleared = NoClear
    /\ failure = ""
    /\ inputs = NoInputs
    /\ outcome = "none"
    /\ good = <<>>
    /\ turns = 0
    /\ used = 0

Init ==
    /\ SessionInit
    /\ args = <<>>
    /\ out = <<>>

\* The frame of a generator that is not running.
FrameGone ==
    /\ message' = <<>>
    /\ model' = ""
    /\ model_map' = EmptyDict
    /\ clean_ui' = <<>>
    /\ clean_api' = <<>>
    /\ request_messages' = <<>>
    /\ display_history' = <<>>
    /\ text' = <<>>
    /\ final_meta' = EmptyDict
    /\ last_ui_emit' = 0
    /\ last_ui_len' = 0
    /\ event' = NoEvent

\* yield ui, ui, api, header_text(status), metrics, model_info, model_map:
\* Gradio writes the tuple to the outputs of prompt.submit (lines 350-353).
\* `before` is the statuses of the turn's earlier snapshots.
Yield(before, ui, api, status, met, map) ==
    /\ snapshot' = [ui |-> ui, api |-> api, headline |-> header_text(status),
                    metrics |-> met, model_map |-> map]
    /\ statuses' = Append(before, status)
    /\ chat' = ui
    /\ ui_history_state' = ui
    /\ api_history_state' = api
    /\ headline' = header_text(status)
    /\ metrics' = met
    /\ model_map_state' = map
    /\ UNCHANGED <<startup_model_state, loaded, model_dropdown>>

\* ------------------------------------------------------------ actions
\* app.load: refresh_models(base_url_state, startup_model_state)
LoadModels(response) ==
    /\ pc = "idle"
    /\ turns = 0
    /\ ~loaded
    /\ loaded' = TRUE
    /\ IF ~response.ok
       THEN /\ model_dropdown' = ""
            /\ model_map_state' = EmptyDict
            /\ headline' = header_text(STATUS_ERROR)
       ELSE LET models == fetch_models(response.models)
                model_names == [i \in 1..Len(models) |-> models[i].name]
            IN  /\ headline' = header_text(STATUS_READY)
                /\ IF model_names = <<>>
                   THEN /\ model_dropdown' = ""
                        /\ model_map_state' = EmptyDict
                   ELSE /\ model_dropdown' =
                              choose_model(model_names, startup_model_state)
                        /\ model_map_state' =
                              [n \in Range(model_names) |->
                                  (CHOOSE m \in Range(models) : m.name = n)]
    /\ UNCHANGED <<startup_model_state, ui_history_state, api_history_state,
                   chat, metrics, frameVars, now, conn, historyVars>>
    /\ UNCHANGED helperVars

\* prompt.submit: stream_chat runs to its first yield (lines 219-239).
Submit(msg) ==
    /\ pc = "idle"
    /\ used < MaxInputs
    /\ used' = used + 1
    /\ turns' = turns + 1
    /\ inputs' = [message |-> msg, model |-> model_dropdown,
                  ui |-> ui_history_state, api |-> api_history_state,
                  model_map |-> model_map_state, at |-> now]
    /\ outcome' = "running"
    /\ emitted' = 0
    /\ events' = <<>>
    /\ requests' = <<>>
    /\ probes' = 0
    /\ probed' = NoProbe
    /\ cleared' = NoClear
    /\ failure' = ""
    /\ message' = msg
    /\ model' = model_dropdown
    /\ model_map' = model_map_state
    /\ clean_ui' = ui_history_state
    /\ clean_api' = api_history_state
    /\ text' = <<>>
    /\ final_meta' = EmptyDict
    /\ last_ui_emit' = 0
    /\ last_ui_len' = 0
    /\ event' = NoEvent
    /\ conn' = "none"
    /\ IF IsNoOp(msg, model_dropdown)
       THEN /\ pc' = "yield_noop"
            /\ request_messages' = <<>>
            /\ display_history' = <<>>
            /\ Yield(<<>>, ui_history_state, api_history_state, STATUS_READY,
                     NoMetricsYet, model_map_state)
       ELSE LET display == ui_history_state
                             \o <<UserMessage(msg), AssistantMessage(<<>>)>>
            IN  /\ pc' = "yield_start"
                /\ request_messages' = RequestMessages(api_history_state, msg)
                /\ display_history' = display
                /\ Yield(<<>>, display, api_history_state, STATUS_GENERATING,
                         NoMetricsYet, model_map_state)
    /\ UNCHANGED <<now, good>>
    /\ UNCHANGED helperVars

\* The generator is resumed at line 239: lines 241-258, the chat request.
\* A failure of the call is caught at line 286.
Post(result) ==
    /\ pc = "yield_start"
    /\ requests' = Append(requests, request_messages)
    /\ last_ui_emit' = now
    /\ last_ui_len' = 0
    /\ text' = <<>>
    /\ final_meta' = EmptyDict
    /\ IF result = "ok"
       THEN /\ pc' = "stream"
            /\ conn' = "open"
            /\ UNCHANGED <<display_history, sessionVars, snapshot, statuses,
                           failure>>
       ELSE LET display == ReplaceLast(display_history,
                                       AssistantMessage(ErrorAnnotation(result)))
            IN  /\ pc' = "yield_err"
                \* raise_for_status fails inside the with block
                /\ conn' = IF result = "HTTPError" THEN "closed" ELSE "none"
                /\ failure' = result
                /\ display_history' = display
                /\ Yield(statuses, display, clean_api, STATUS_ERROR,
                         NoMetricsYet, model_map)
    /\ UNCHANGED <<message, model, model_map, clean_ui, clean_api,
                   request_messages, event, now, emitted, events, probes, probed, cleared,
                   inputs, outcome, good, turns, used>>
    /\ UNCHANGED helperVars

\* Time passes while the generator waits for the next line or is suspended
\* at the snapshot of an event.
Tick ==
    /\ pc \in {"stream", "yield_emit"}
    /\ used < MaxInputs
    /\ used' = used + 1
    /\ now' = now + TickMs
    /\ UNCHANGED <<sessionVars, frameVars, conn, snapshot, statuses, emitted,
                   events, requests, probes, probed, cleared, failure, inputs, outcome, good,
                   turns>>
    /\ UNCHANGED helperVars

\* lines 283-285 and the end of the with block: the done check after an
\* event was handled.
AfterEvent(ev) ==
    IF ev.done
    THEN /\ final_meta' = ev
         /\ conn' = "closed"
         /\ pc' = "probe"
    ELSE /\ pc' = "stream"
         /\ UNCHANGED <<final_meta, conn>>

\* A bug that yields the working copy of the replay history on failure.
FailCommitting(exc) ==
    LET display == ReplaceLast(display_history,
                               AssistantMessage(ErrorAnnotation(exc)))
    IN  /\ pc' = "yield_err"
        /\ conn' = "closed"
        /\ failure' = exc
        /\ display_history' = display
        /\ Yield(statuses, display, request_messages, STATUS_ERROR, NoMetricsYet,
                 model_map)

\* lines 286-288: a failure inside the with block, which closes the response
Fail(exc) ==
    LET display == ReplaceLast(display_history,
                               AssistantMessage(ErrorAnnotation(exc)))
    IN  /\ pc' = "yield_err"
        /\ conn' = "closed"
        /\ failure' = exc
        /\ display_history' = display
        /\ Yield(statuses, display, clean_api, STATUS_ERROR, NoMetricsYet, model_map)

\* iter_lines delivers a line: lines 259-285, up to the next yield
ReceiveLine(line) ==
    /\ pc = "stream"
    /\ used < MaxInputs
    /\ used' = used + 1
    /\ CASE line.kind = "blank" ->
              UNCHANGED <<sessionVars, frameVars, conn, snapshot, statuses,
                          emitted, events, failure, outcome>>
         [] line.kind = "garbage" ->
              /\ Fail("JSONDecodeError")
              /\ UNCHANGED <<message, model, model_map, clean_ui, clean_api,
                             request_messages, text, final_meta, last_ui_emit,
                             last_ui_len, event, emitted, events, outcome>>
         [] line.kind = "nonobject" ->
              \* event.get raises AttributeError, which line 286 does not catch
              /\ pc' = "idle"
              /\ conn' = "closed"
              /\ outcome' = "raised"
              /\ FrameGone
              /\ UNCHANGED <<sessionVars, snapshot, statuses, emitted, events,
                             failure>>
         [] line.kind = "event" ->
              LET message_event == line.event.message
                  status_key == StatusKey(message_event)
                  newText == Accumulate(text, message_event)
                  chars_delta == Len(newText) - last_ui_len
                  should_emit == /\ HasDelta(message_event)
                                 /\ ShouldEmit(chars_delta, now - last_ui_emit,
                                               message_event)
                  display == ReplaceLast(display_history, AssistantMessage(newText))
              IN  /\ events' = Append(events, line.event)
                  /\ event' = line.event
                  /\ text' = newText
                  /\ IF should_emit
                     THEN /\ display_history' = display
                          /\ last_ui_emit' = now
                          /\ last_ui_len' = Len(newText)
                          /\ emitted' = emitted + 1
                          /\ pc' = "yield_emit"
                          /\ Yield(statuses, display, clean_api, status_key,
                                   NoMetricsYet, model_map)
                          /\ UNCHANGED <<final_meta, conn>>
                     ELSE /\ AfterEvent(line.event)
                          /\ UNCHANGED <<display_history, last_ui_emit, last_ui_len,
                                         emitted, sessionVars, snapshot, statuses>>
                  /\ UNCHANGED <<message, model, model_map, clean_ui, clean_api,
                                 request_messages, failure, outcome>>
    /\ UNCHANGED <<now, requests, probes, probed, cleared, inputs, good, turns>>
    /\ UNCHANGED helperVars

\* The generator is resumed at line 281: the done check of the event.
ResumeStream ==
    /\ pc = "yield_emit"
    /\ AfterEvent(event)
    /\ UNCHANGED <<sessionVars, message, model, model_map, clean_ui, clean_api,
                   request_messages, display_history, text, last_ui_emit,
                   last_ui_len, event, now, historyVars>>
    /\ UNCHANGED helperVars

\* iter_lines raises a RequestException in the middle of the stream.
StreamFails ==
    /\ pc = "stream"
    /\ Fail("ChunkedEncodingError")
    /\ UNCHANGED <<message, model, model_map, clean_ui, clean_api,
                   request_messages, text, final_meta, last_ui_emit, last_ui_len,
                   event, now, emitted, events, requests, probes, probed, cleared, inputs, outcome,
                   good, turns, used>>
    /\ UNCHANGED helperVars

\* The service closes the stream without a done event: the loop ends.
StreamEnds ==
    /\ pc = "stream"
    /\ pc' = "probe"
    /\ conn' = "closed"
    /\ UNCHANGED <<sessionVars, message, model, model_map, clean_ui, clean_api,
                   request_messages, display_history, text, final_meta,
                   last_ui_emit, last_ui_len, event, now, historyVars>>
    /\ UNCHANGED helperVars

\* fetch_ps_entry, line 185: payload.get raises AttributeError when the body
\* is no object; the except clause at line 182 is already behind.
PsRaises(response) == response.ok /\ ~response.object

\* The answer holds an entry named like the model (lines 186-189).
PsMatches(response, model_name) ==
    /\ response.ok
    /\ response.object
    /\ \E i \in 1..Len(response.models) :
          EntryName(response.models[i]) = model_name

\* lines 291-304: the metrics, the /api/ps probe and the Ready snapshot
Finish(response) ==
    /\ pc = "probe"
    /\ probes' = probes + 1
    /\ probed' = [sent |-> TRUE, matched |-> PsMatches(response, model)]
    /\ IF PsRaises(response)
       THEN \* the exception leaves stream_chat
            /\ pc' = "idle"
            /\ outcome' = "raised"
            /\ FrameGone
            /\ UNCHANGED <<sessionVars, snapshot, statuses, good>>
       ELSE /\ model_map' = RefreshedModelMap(model_map, model,
                                              fetch_ps_entry(response, model))
            /\ display_history' =
                   ReplaceLast(display_history, FinalDisplayMessage(text))
            /\ Yield(statuses, display_history',
                     UpdatedApi(request_messages, text),
                     STATUS_READY, FinalMetrics(final_meta), model_map')
            /\ pc' = "yield_ready"
            /\ good' = good \o <<UserMessage(inputs.message),
                                 AssistantMessage(Concat([i \in 1..Len(events) |->
                                                    events[i].message.content]))>>
            /\ UNCHANGED <<message, model, clean_ui, clean_api, request_messages,
                           text, final_meta, last_ui_emit, last_ui_len, event,
                           outcome>>
    /\ UNCHANGED <<now, conn, emitted, events, requests, failure, inputs, turns,
                   used, cleared>>
    /\ UNCHANGED helperVars

\* The generator is resumed after its last yield and returns.
Return ==
    /\ pc \in {"yield_noop", "yield_err", "yield_ready"}
    /\ pc' = "idle"
    /\ outcome' = CASE pc = "yield_noop" -> "noop"
                    [] pc = "yield_err" -> "error"
                    [] pc = "yield_ready" -> "ready"
    /\ FrameGone
    /\ UNCHANGED <<sessionVars, now, conn, snapshot, statuses, emitted, events,
                   requests, probes, probed, cleared, failure, inputs, good, turns, used>>
    /\ UNCHANGED helperVars

\* A bug that opens the response outside a with block.
ConnLeftOpen(c) == c

\* The consumer stops iterating and closes the generator: GeneratorExit is
\* raised at the yield, and leaving the with block closes the response.
ConnAfterClose(c) == IF c = "open" THEN "closed" ELSE c

Abandon ==
    /\ pc \in YieldPoints
    /\ pc' = "idle"
    /\ outcome' = "abandoned"
    /\ conn' = ConnAfterClose(conn)
    /\ FrameGone
    /\ UNCHANGED <<sessionVars, now, snapshot, statuses, emitted, events,
                   requests, probes, probed, cleared, failure, inputs, good, turns, used>>
    /\ UNCHANGED helperVars

Next ==
    \/ \E r \in TagsResponses : LoadModels(r)
    \/ \E m \in Messages : Submit(m)
    \/ \E r \in PostOutcomes : Post(r)
    \/ Tick
    \/ \E l \in Lines : ReceiveLine(l)
    \/ ResumeStream
    \/ StreamFails
    \/ StreamEnds
    \/ \E r \in PsResponses : Finish(r)
    \/ Return
    \/ Abandon

Spec == Init /\ [][Next]_vars

\* chat.clear (lines 360-364): the handler runs on its own, whether or not a
\* turn of the session is streaming, and Gradio writes what it returns to
\* the outputs; gr.update() leaves the model info as it is.
Clear ==
    /\ used < MaxInputs
    /\ used' = used + 1
    /\ chat' = <<>>
    /\ ui_history_state' = <<>>
    /\ api_history_state' = <<>>
    /\ headline' = header_text(STATUS_READY)
    /\ metrics' = NoMetricsYet
    /\ model_map_state' = model_map_state
    /\ cleared' = [on |-> TRUE, headline |-> headline',
                   model_map_in |-> model_map_state,
                   model_map_out |-> model_map_state']
    /\ UNCHANGED <<startup_model_state, loaded, model_dropdown, frameVars, now,
                   conn, snapshot, statuses, emitted, events, requests, probes,
                   probed, failure, inputs, outcome, good, turns>>
    /\ UNCHANGED helperVars

\* The session with the clear button of the chat in use.
ClearNext == Next \/ Clear

ClearSpec == Init /\ [][ClearNext]_vars

\* ------------------------------------ helpers applied on their own
\* The longest text given to render_assistant_text on its own.
MaxTextLen == 5

\* The characters of those texts: the brackets, an operator character, the
\* line break and the character of the canonical delimiter.
RenderChars == {"[", "]", "=", "\n", "$"}

RenderTexts == UNION {[1..n -> RenderChars] : n \in 0..MaxTextLen}

RenderInit ==
    /\ SessionInit
    /\ args \in {[text |-> t] : t \in RenderTexts}
    /\ out = <<>>

\* render_assistant_text(text), then render_assistant_text of its result
ApplyRender ==
    /\ Len(out) < 2
    /\ out' = Append(out, render_assistant_text(IF out = <<>> THEN args.text
                                                 ELSE out[Len(out)]))
    /\ UNCHANGED <<args, appVars>>

RenderSpec == RenderInit /\ [][ApplyRender]_vars

\* The largest token count given to compute_speed on its own.
MaxCount == 20

\* count: absent, None or 0 (all falsy, held as 0), a count up to MaxCount,
\* the count of the documented example, and a negative number.
Counts == (-1..MaxCount) \cup {100}

\* duration_ns: absent, None or 0 (held as 0), a negative duration, and
\* durations from a microsecond to two seconds.
DurationsNs ==
    {-1000000000, 0, 1000, 7000, 250000000, 500000000, 1000000000,
     1500000000, 2000000000}

SpeedInit ==
    /\ SessionInit
    /\ args \in [count : Counts, duration_ns : DurationsNs]
    /\ out = <<>>

\* compute_speed(count, duration_ns)
ApplySpeed ==
    /\ out = <<>>
    /\ out' = <<compute_speed(args.count, args.duration_ns)>>
    /\ UNCHANGED <<args, appVars>>

SpeedSpec == SpeedInit /\ [][ApplySpeed]_vars

\* The longest list of model names given to choose_model on its own.
MaxModels == 3

\* The lists refresh_models passes: the names fetch_models returned, none
\* of them empty, in sorted order.
ModelNameLists ==
    {l \in UNION {[1..n -> {"m1", "m2", "m3"}] : n \in 1..MaxModels} :
        \A i \in 1..(Len(l) - 1) : NameRank(l[i]) <= NameRank(l[i + 1])}

\* preferred_model: None or empty (held as ""), a name, an unknown name.
PreferredModels == {"", "m1", "m2", "m3", "m9"}

ChooseInit ==
    /\ SessionInit
    /\ args \in [model_names : ModelNameLists, preferred_model : PreferredModels]
    /\ out = <<>>

\* choose_model(model_names, preferred_model)
ApplyChoose ==
    /\ out = <<>>
    /\ out' = <<choose_model(args.model_names, args.preferred_model)>>
    /\ UNCHANGED <<args, appVars>>

ChooseSpec == ChooseInit /\ [][ApplyChoose]_vars

\* ------------------------------------------------------- properties
Last(seq) == seq[Len(seq)]

\* The content deltas of the events received in the turn, concatenated in
\* arrival order.
ReceivedText == Concat([i \in 1..Len(events) |-> events[i].message.content])

ContentOnly(ev) == ev.message.thinking = <<>> /\ ev.message.content # <<>>
ThinkingOnly(ev) == ev.message.thinking # <<>> /\ ev.message.content = <<>>

\* C1: when a turn reaches Ready, the accumulated assistant text is the
\* concatenation of the content deltas in arrival order, whatever the
\* throttle emitted or suppressed on the way: the replay history ends with
\* that text and the display history with its normalized form.
C1_FinalTextIsConcatenation ==
    pc = "yield_ready" =>
        /\ text = ReceivedText
        /\ Last(snapshot.api) = AssistantMessage(ReceivedText)
        /\ Last(snapshot.ui) = AssistantMessage(render_assistant_text(ReceivedText))

\* C1 witness: a stream of content-only events ended by done, in which the
\* first delta's emission was suppressed and a later one was emitted.
C1_Witness ==
    /\ pc = "yield_ready"
    /\ Len(events) = 3
    /\ ContentOnly(events[1]) /\ ContentOnly(events[2])
    /\ events[1].message.content # events[2].message.content
    /\ events[3].done
    /\ emitted = 1
    /\ text = events[1].message.content \o events[2].message.content

\* C2: a failure of the chat request (the call itself, the stream after
\* some content, or a line that is no JSON) ends the turn in an Error
\* snapshot whose display history is the input display history, the user
\* message and an error annotation with the failure detail, and whose
\* replay history is the input replay history.
C2_FailureEndsInError ==
    failure # "" =>
        /\ Last(statuses) = STATUS_ERROR
        /\ snapshot.headline = header_text(STATUS_ERROR)
        /\ snapshot.ui = inputs.ui \o <<UserMessage(inputs.message),
                                        AssistantMessage(<<"[Error] ", failure>>)>>
        /\ snapshot.api = inputs.api
        /\ pc \in {"yield_err", "idle"}
        /\ outcome \in {"running", "error", "abandoned"}

\* C2 witness: the stream fails after partial content was received and shown.
C2_Witness ==
    /\ pc = "yield_err"
    /\ failure = "ChunkedEncodingError"
    /\ text # <<>>
    /\ emitted > 0
    /\ inputs.api # <<>>

\* C3: at Ready the replay history is the input replay history, the user
\* message and the raw accumulated text; the display history is the input
\* display history, the user message and the normalized text.
C3_ReadyHistories ==
    pc = "yield_ready" =>
        /\ snapshot.api = inputs.api \o <<UserMessage(inputs.message),
                                          AssistantMessage(ReceivedText)>>
        /\ snapshot.ui = inputs.ui \o
              <<UserMessage(inputs.message),
                AssistantMessage(render_assistant_text(ReceivedText))>>
        /\ Last(statuses) = STATUS_READY

\* C3 witness: a Ready turn whose text the normalizer rewrites.
C3_Witness ==
    /\ pc = "yield_ready"
    /\ ReceivedText # <<>>
    /\ render_assistant_text(ReceivedText) # ReceivedText
    /\ inputs.ui # <<>>

\* The statuses that end a turn.
Terminal == {STATUS_READY, STATUS_ERROR}

\* C4: a turn that was iterated to the end has exactly one snapshot with
\* status Ready or Error, and it is the last one; no failure of the turn
\* leaves stream_chat as an exception.
C4_EndsInOneTerminalSnapshot ==
    outcome \in {"noop", "ready", "error", "raised"} =>
        /\ outcome # "raised"
        /\ statuses # <<>>
        /\ Last(statuses) \in Terminal
        /\ \A i \in 1..(Len(statuses) - 1) : statuses[i] \notin Terminal

\* C5: an empty or whitespace-only message, or no selected model, gives one
\* Ready snapshot, no chat request, no probe, and the histories and the
\* model map as they were passed in.
C5_NoOpPassesThrough ==
    /\ ((\A i \in 1..Len(inputs.message) : IsSpace(inputs.message[i]))
           \/ inputs.model = "")
         /\ outcome = "running"
       => pc = "yield_noop"
    /\ (pc = "yield_noop" \/ outcome = "noop") =>
          /\ statuses = <<STATUS_READY>>
          /\ requests = <<>>
          /\ probes = 0
          /\ conn = "none"
          /\ snapshot.ui = inputs.ui
          /\ snapshot.api = inputs.api
          /\ snapshot.model_map = inputs.model_map

\* C5 witness: a whitespace-only message with a model selected and
\* histories that are not empty.
C5_Witness ==
    /\ pc = "yield_noop"
    /\ inputs.message = <<" ">>
    /\ inputs.model # ""
    /\ inputs.api # <<>>
    /\ Len(inputs.ui) > Len(inputs.api)

\* C6: every snapshot before the terminal Ready one (the placeholder, the
\* Thinking and Generating updates, the Error snapshot) carries the replay
\* history that was passed in.
C6_ReplayUntouchedBeforeReady ==
    (statuses # <<>> /\ Last(statuses) # STATUS_READY) =>
        snapshot.api = inputs.api

\* C6 witness: a streaming update that shows partial assistant text.
C6_Witness ==
    /\ pc = "yield_emit"
    /\ Last(snapshot.ui).content # <<>>
    /\ Last(snapshot.ui).content = text
    /\ inputs.api # <<>>

\* C7: over the turns of a conversation the replay history is the list of
\* user/assistant pairs of the turns that reached Ready, in order; a chat
\* request carries that list and the new user message; a turn sends at most
\* one chat request.
C7_ReplayIsSuccessfulTurnsOnly ==
    /\ api_history_state = good
    /\ Len(good) % 2 = 0
    /\ \A i \in 1..Len(good) :
          good[i].role = (IF i % 2 = 1 THEN "user" ELSE "assistant")
    /\ Len(requests) <= 1
    /\ (IsNoOp(inputs.message, inputs.model) => requests = <<>>)
    /\ pc \in {"stream", "yield_emit", "probe", "yield_err"} =>
          requests = <<good \o <<UserMessage(inputs.message)>>>>
    /\ pc = "yield_ready" =>
          requests = <<SubSeq(good, 1, Len(good) - 1)>>

\* C7 witness: the third turn, after one failed and one successful turn,
\* has sent its request.
C7_Witness ==
    /\ turns = 3
    /\ pc = "stream"
    /\ Len(good) = 2
    /\ Len(inputs.ui) = 4
    /\ \E i \in 1..4 : inputs.ui[i].content = ErrorAnnotation("HTTPError")
    /\ Len(requests[1]) = 3

\* C8: when the consumer closes the generator at a yield, the response is
\* not left open, and nothing of the turn runs afterwards: the session's
\* replay history stays the one of the last snapshot, which before Ready is
\* the history passed in.
C8_AbandonReleasesAndCommitsNothing ==
    /\ (pc \notin {"stream", "yield_emit"} => conn # "open")
    /\ outcome = "abandoned" =>
          /\ pc = "idle"
          /\ api_history_state = snapshot.api
          /\ (Last(statuses) # STATUS_READY => api_history_state = inputs.api)
          /\ api_history_state \in
                {inputs.api,
                 inputs.api \o <<UserMessage(inputs.message),
                                 AssistantMessage(ReceivedText)>>}

\* C8 witness: a turn abandoned in the middle of the stream, with partial
\* text on display and the response open until then.
C8_Witness ==
    /\ outcome = "abandoned"
    /\ conn = "closed"
    /\ emitted > 0
    /\ Last(statuses) = STATUS_GENERATING
    /\ Last(snapshot.ui).content # <<>>
    /\ inputs.api # <<>>

\* The stream of the turn is one or more thinking-only events, then one or
\* more content-only events, then the done event.
ThinkingThenContentThenDone ==
    /\ Len(events) >= 3
    /\ Last(events).done
    /\ \A i \in 1..(Len(events) - 1) : ~events[i].done
    /\ \E k \in 1..(Len(events) - 2) :
          /\ \A i \in 1..k : ThinkingOnly(events[i])
          /\ \A i \in (k + 1)..(Len(events) - 1) : ContentOnly(events[i])

\* The number of leading thinking-only events.
RECURSIVE LeadingThinking(_)
LeadingThinking(evs) ==
    IF evs # <<>> /\ ThinkingOnly(Head(evs)) THEN 1 + LeadingThinking(Tail(evs))
    ELSE 0

\* C9 as stated: for such a stream the statuses of the snapshots show
\* Thinking, later Generating, later Ready.
C9_Original ==
    (pc = "yield_ready" /\ ThinkingThenContentThenDone) =>
        \E i, j, k \in 1..Len(statuses) :
            /\ i < j /\ j < k
            /\ statuses[i] = STATUS_THINKING
            /\ statuses[j] = STATUS_GENERATING
            /\ statuses[k] = STATUS_READY

\* C9 amended: for such a stream the snapshots after the Generating
\* placeholder are one Thinking snapshot per thinking-only event, then one
\* Generating snapshot per content event that passed the throttle (there may
\* be none), then Ready; no Thinking follows a Generating update.
C9_ThinkingThenThrottledGeneratingThenReady ==
    (pc = "yield_ready" /\ ThinkingThenContentThenDone) =>
        LET n == Len(statuses)
            t == LeadingThinking(events)
        IN  /\ n = emitted + 2
            /\ emitted >= t
            /\ statuses[1] = STATUS_GENERATING
            /\ \A i \in 2..(t + 1) : statuses[i] = STATUS_THINKING
            /\ \A i \in (t + 2)..(n - 1) : statuses[i] = STATUS_GENERATING
            /\ statuses[n] = STATUS_READY

\* C9 witness: the content arrived short and fast, so that the throttle
\* emitted no Generating snapshot between Thinking and Ready.
C9_Witness ==
    /\ pc = "yield_ready"
    /\ ThinkingThenContentThenDone
    /\ text # <<>>
    /\ statuses = <<STATUS_GENERATING, STATUS_THINKING, STATUS_READY>>

\* The metrics are one of the two texts that stand for "no metrics".
IsSentinel(m) == m \in {NoMetricsYet, NoMetricsReturned}

\* A done event was received in the turn.
DoneSeen == events # <<>> /\ Last(events).done

\* C10: a turn that ends without a done event (stream ended, Error) shows a
\* sentinel and never computed figures; computed figures are the ones of
\* the done event, and appear only on the Ready snapshot.
C10_NoTelemetryGivesSentinel ==
    /\ (statuses # <<>> /\ Last(statuses) \in Terminal /\ ~DoneSeen) =>
          /\ IsSentinel(snapshot.metrics)
          /\ "gen_tps" \notin DOMAIN snapshot.metrics
    /\ (statuses # <<>> /\ Last(statuses) = STATUS_ERROR) =>
          snapshot.metrics = NoMetricsYet
    /\ ~IsSentinel(snapshot.metrics) =>
          /\ Last(statuses) = STATUS_READY
          /\ DoneSeen
          /\ snapshot.metrics = format_metrics(Last(events))

\* C10 witness: the stream ended after some content and before any done
\* event, and the turn reached Ready.
C10_Witness ==
    /\ pc = "yield_ready"
    /\ text # <<>>
    /\ ~DoneSeen
    /\ snapshot.metrics = NoMetricsReturned

\* C11: render_assistant_text is idempotent: for every text, nested or
\* adjacent bracket spans and canonical $$ delimiters included, applying it
\* to its own result gives that result again.
C11_RenderIsIdempotent ==
    Len(out) = 2 => out[2] = out[1]

\* C12: compute_speed returns 0.0 when the count is falsy or the duration is
\* absent or <= 0; otherwise the count divided by the duration in seconds,
\* that is, the result times the duration in microseconds is the count times
\* a million; compute_speed(100, 2_000_000_000) is 50.0.
C12_SpeedIsCountPerSecond ==
    out # <<>> =>
        LET count == args.count
            duration_ns == args.duration_ns
            speed == out[1]
        IN  /\ (count = 0 \/ duration_ns <= 0) => speed = Zero
            /\ (count # 0 /\ duration_ns > 0) =>
                  /\ speed.den > 0
                  /\ speed.num * (duration_ns \div 1000) = count * 1000000 * speed.den
            /\ (count = 100 /\ duration_ns = 2000000000) =>
                  speed = [num |-> 50, den |-> 1]

\* C12 witness: the documented example has been computed.
C12_Witness ==
    /\ out = <<[num |-> 50, den |-> 1]>>
    /\ args = [count |-> 100, duration_ns |-> 2000000000]

\* C13: for a list of model names that is not empty and any preferred
\* value, choose_model returns the preferred name if and only if it is in
\* the list, and the first name of the list otherwise.
C13_PreferredIffMember ==
    out # <<>> =>
        LET names == args.model_names
            preferred == args.preferred_model
            member == \E i \in 1..Len(names) : names[i] = preferred
        IN  /\ (out[1] = preferred) <=> member
            /\ ~member => out[1] = names[1]

\* C13 witness: the preferred name is in the list and is not its first.
C13_Witness ==
    /\ out # <<>>
    /\ out[1] = args.preferred_model
    /\ args.model_names[1] # args.preferred_model
    /\ Len(args.model_names) = MaxModels

\* An event was received in this step.
EventStep == Len(events') = Len(events) + 1

\* C14: an event with a thinking or content delta produces a snapshot with
\* the accumulated text exactly when the text grew by 24 characters or more
\* since the last emission, or 0.12 s or more passed since the last
\* emission (since the request, before any), or the event carries thinking
\* and no content.  An emission sets the last emitted length and time to
\* the current ones; without one the emission state and the last snapshot
\* stay as they are.  A thinking-only event always emits.
C14_ThrottleRule ==
    [][EventStep =>
        LET ev == Last(events')
            grew == Len(ReceivedText') - last_ui_len
            elapsed == now - last_ui_emit
            due == \/ grew >= 24
                   \/ elapsed >= 120
                   \/ ThinkingOnly(ev)
            carries == ev.message.thinking # <<>> \/ ev.message.content # <<>>
        IN  /\ (carries /\ due) <=> emitted' = emitted + 1
            /\ emitted' \in {emitted, emitted + 1}
            /\ IF emitted' = emitted + 1
               THEN /\ pc' = "yield_emit"
                    /\ last_ui_len' = Len(ReceivedText')
                    /\ last_ui_emit' = now'
                    /\ Len(statuses') = Len(statuses) + 1
                    /\ Last(snapshot'.ui) = AssistantMessage(ReceivedText')
               ELSE UNCHANGED <<last_ui_len, last_ui_emit, snapshot, statuses,
                                display_history>>
    ]_vars

\* C14 witness: of two short content deltas the first was held back and the
\* second was emitted because of the time that had passed.
C14_Witness ==
    /\ pc = "yield_emit"
    /\ Len(events) = 2
    /\ ContentOnly(events[1]) /\ ContentOnly(events[2])
    /\ Len(text) < STREAM_UI_UPDATE_MIN_CHARS
    /\ emitted = 1
    /\ last_ui_len = Len(text)

\* The least whole number of b's that cover a.
Ceil(a, b) == (a + b - 1) \div b

\* The snapshots emitted while the stream is consumed are at most
\* ceil(totalChars / 24) + ceil(totalTime / 0.12 s) + the number of
\* thinking-only events.
EmissionsWithinBound ==
    emitted <= Ceil(Len(ReceivedText), 24) + Ceil(now - inputs.at, 120)
               + Cardinality({i \in 1..Len(events) : ThinkingOnly(events[i])})

\* C15: the emissions of a turn stay within that bound, and a turn that was
\* iterated to the end made a final emission, the Ready or Error snapshot.
C15_EmissionsBoundedAndOneFinal ==
    /\ EmissionsWithinBound
    /\ outcome \in {"noop", "ready", "error", "raised"} =>
          /\ statuses # <<>>
          /\ Last(statuses) \in Terminal

\* C16: the snapshot an event triggers has the status Thinking when the
\* event carries thinking and no content, and Generating when it carries
\* content, with or without thinking.
C16_StatusOfTriggeringEvent ==
    pc = "yield_emit" =>
        LET ev == Last(events)
        IN  /\ ThinkingOnly(ev) => Last(statuses) = STATUS_THINKING
            /\ ev.message.content # <<>> => Last(statuses) = STATUS_GENERATING

\* The turn is consuming the stream: it is past the placeholder and has not
\* yet yielded its terminal snapshot.
Streaming == pc \in {"stream", "yield_emit", "probe"}

IsPrefix(p, t) == Len(p) <= Len(t) /\ p = SubSeq(t, 1, Len(p))

\* The content of the last message of the display history last shown.
Shown == Last(snapshot.ui).content

\* C17: while the stream is consumed, the assistant message on display is a
\* prefix of the concatenation of the content deltas received so far and so
\* holds nothing of a thinking delta; it is the whole accumulated text in
\* every snapshot the throttle emits; and it never gets shorter from one
\* snapshot to the next.
C17_DisplayIsGrowingPrefix ==
    /\ [](Streaming =>
            /\ Last(snapshot.ui).role = "assistant"
            /\ IsPrefix(Shown, ReceivedText)
            /\ (pc = "yield_emit" => Shown = ReceivedText)
            /\ display_history = snapshot.ui)
    /\ [][(Streaming /\ Streaming') =>
            /\ Len(Shown') >= Len(Shown)
            /\ IsPrefix(Shown, Shown')]_vars

\* C17 witness: after a thinking event and a content delta that was held
\* back, a second content delta was emitted with the whole text.
C17_Witness ==
    /\ pc = "yield_emit"
    /\ Len(events) = 3
    /\ ThinkingOnly(events[1])
    /\ ContentOnly(events[2]) /\ ContentOnly(events[3])
    /\ emitted = 2
    /\ Shown = events[2].message.content \o events[3].message.content

\* The entry of model m in a model map, the empty dict when there is none.
EntryOf(map, m) == IF m \in DOMAIN map THEN map[m] ELSE EmptyDict

\* An entry without the two fields the probe refreshes.
OtherFields(entry) ==
    [k \in (DOMAIN entry) \ {"context_length", "size_vram"} |-> entry[k]]

\* The probe of the turn was answered with an entry of the active model.
ProbeMatched == probed.sent /\ probed.matched

\* C18: a turn sends at most one /api/ps request, and only after the stream
\* was consumed without failure; whatever the answer, the turn then ends in
\* the Ready snapshot with the histories of the turn; the model map of a
\* snapshot differs from the one passed in only after an answer with an
\* entry of the active model, only in that model's entry and only in its
\* context_length and size_vram.
C18_ProbeOnceAndMapFrame ==
    LET old == inputs.model_map
        new == snapshot.model_map
        active == inputs.model
    IN  /\ probes <= 1
        /\ probed.sent <=> probes = 1
        /\ probed.sent =>
              /\ failure = ""
              /\ Len(requests) = 1
              /\ conn = "closed"
              /\ Last(statuses) = STATUS_READY
              /\ snapshot.api = inputs.api \o <<UserMessage(inputs.message),
                                                AssistantMessage(ReceivedText)>>
              /\ snapshot.ui = inputs.ui \o
                    <<UserMessage(inputs.message),
                      AssistantMessage(render_assistant_text(ReceivedText))>>
        /\ \A m \in (DOMAIN old \cup DOMAIN new) \ {active} :
              /\ m \in DOMAIN old
              /\ m \in DOMAIN new
              /\ new[m] = old[m]
        /\ OtherFields(EntryOf(new, active)) = OtherFields(EntryOf(old, active))
        /\ new # old => (ProbeMatched /\ Last(statuses) = STATUS_READY)

\* C19: once chat.clear has run, the session's display and replay history
\* are empty and stay empty until the next submission starts, also when a
\* turn was streaming at the time; the handler set the status to Ready and
\* returned the model map it was given.
C19_ClearStaysCleared ==
    cleared.on =>
        /\ chat = <<>>
        /\ ui_history_state = <<>>
        /\ api_history_state = <<>>
        /\ cleared.headline = header_text(STATUS_READY)
        /\ cleared.model_map_out = cleared.model_map_in

====
